---- MODULE Spec2Model ----
(***************************************************************************)
(* TitanCache benchmark driver (src/benchmark.py): main() runs the         *)
(* scenarios of the catalog one after the other; run_scenario() resets the *)
(* server, pauses, issues the requests in batches of `users` concurrent    *)
(* worker() coroutines joined by asyncio.gather, prints a summary and      *)
(* returns the records; main() then writes all records to one CSV file.    *)
(*                                                                         *)
(* Numbers that are floats in the source are fixed-point here:             *)
(*   read_ratio and random.random() draws are in hundredths (0..99),       *)
(*   random.gauss() draws are in tenths.                                   *)
(* Wall-clock fields of a record (timestamp, latency) are not modelled.    *)
(***************************************************************************)
EXTENDS Integers, Sequences, FiniteSets, TLC

\* ------------------------------------------------------------------ bounds
MaxRequests == 10
MaxUsers == 3
MaxSmallRequests == 2
MaxElapsed == 2

\* ------------------------------------------------------- program constants
NumScenarios == 3
ProgressParts == 10
HotPercent == 90
HotSubsetPercent == 5

\* -------------------------------------------------------------- catalog

\* The read-only workload of the specification's example (read_ratio = 1.0).
PlainWorkload ==
  [read_ratio |-> 100, key_pattern |-> "uniform", key_space |-> 1,
   payload_mean |-> 2, payload_std |-> 0]

\* The three workloads of SCENARIOS, scaled down, and a hot workload whose
\* key space is too small to have a hot subset.
RichWorkloads ==
  { [read_ratio |-> 90, key_pattern |-> "zipf", key_space |-> 3,
     payload_mean |-> 2, payload_std |-> 1],
    [read_ratio |-> 20, key_pattern |-> "hot", key_space |-> 40,
     payload_mean |-> 1, payload_std |-> 1],
    [read_ratio |-> 5, key_pattern |-> "uniform", key_space |-> 2,
     payload_mean |-> 3, payload_std |-> 0],
    [read_ratio |-> 20, key_pattern |-> "hot", key_space |-> 19,
     payload_mean |-> 1, payload_std |-> 0] }

Workloads == {PlainWorkload} \cup RichWorkloads

MkScenario(name, n, u, wl) ==
  [name |-> name, requests |-> n, users |-> u,
   read_ratio |-> wl.read_ratio, key_pattern |-> wl.key_pattern,
   key_space |-> wl.key_space,
   payload_mean |-> wl.payload_mean, payload_std |-> wl.payload_std]

\* --------------------------------------------------------- random draws
\* random.random() returns a float in [0, 1): sampled in hundredths (0.2 is
\* the read_ratio of the hot workloads).
RandomDraws == {0, 20, 50, 99}

Max(a, b) == IF a >= b THEN a ELSE b

\* random.randint(a, b): ValueError when the range is empty, else a value of
\* a..b (sampled at both ends and the middle).
RandInt(a, b) ==
  IF a > b THEN {[raised |-> TRUE, key |-> 0]}
  ELSE {[raised |-> FALSE, key |-> n] : n \in {a, (a + b) \div 2, b}}

\* int(space * 0.05)
HotLimit(space) == (space * HotSubsetPercent) \div 100

\* int(space * u ** 3), u in hundredths
ZipfIndex(space, u) == (space * u * u * u) \div 1000000

\* get_key(config): every outcome of the draws; key N stands for "user_N".
get_key(config) ==
  LET space == config.key_space IN
  CASE config.key_pattern = "uniform" -> RandInt(1, space)
    [] config.key_pattern = "hot" ->
         UNION { IF u < HotPercent THEN RandInt(1, HotLimit(space))
                                   ELSE RandInt(1, space) : u \in RandomDraws }
    [] config.key_pattern = "zipf" ->
         { [raised |-> FALSE, key |-> Max(1, ZipfIndex(space, u))] :
             u \in RandomDraws }

\* random.gauss(mean, std) in tenths: the mean itself when std = 0, else a
\* draw three deviations below the mean and two non-integer draws around it.
GaussDraws(mean, std) ==
  IF std = 0 THEN {10 * mean}
  ELSE {10 * mean - 30 * std, 10 * mean - 5, 10 * mean + 6}

\* int(x) of a float x given in tenths: truncation toward zero.
IntTrunc(x10) == IF x10 >= 0 THEN x10 \div 10 ELSE -((-x10) \div 10)

\* a changed generate_payload: the length is not floored to 1
generate_payload_NoFloor(g10) == IntTrunc(g10)

\* generate_payload: the length of "X" * max(1, size).
generate_payload(g10) == Max(1, IntTrunc(g10))

\* a changed comparison: the test of the draw inverted
IsWrite_Inverted(u, config) == u < config.read_ratio

\* worker line 88: random.random() > config["read_ratio"]
IsWrite(u, config) == u > config.read_ratio

\* how the value of random.random() compares with read_ratio
Compared(u, ratio) ==
  IF u < ratio THEN "below" ELSE IF u = ratio THEN "equal" ELSE "above"

\* a changed worker: op_type is never assigned "WRITE"
OpType_NeverSet(u, config) == "READ"

\* lines 83, 88-89: op_type
OpType(u, config) == IF IsWrite(u, config) THEN "WRITE" ELSE "READ"

\* ------------------------------------------------------------------ state
VARIABLES
  SCENARIOS,      \* the catalog: a sequence of scenario configurations
  server,         \* the status codes the cache service answers with
  mainpc,         \* main(): "loop", "run", "sleep", "exit", "aborted"
  s,              \* main(): position of `scenario` in SCENARIOS
  phase,          \* run_scenario(): phase of the current scenario
  session,        \* the aiohttp.ClientSession: "none", "open", "closed"
  reset,          \* clear_server_state(): "none", "ok", "failed"
  rpc,            \* run_scenario() inside EXECUTE: "loop", "gather", "tail"
  i,              \* run_scenario(): the loop variable i
  tasks,          \* run_scenario(): the list `tasks` (request indices)
  w,              \* the worker coroutines of `tasks`: index -> locals
  stats_list,     \* run_scenario(): the records of this scenario
  error_counter,  \* run_scenario(): error_counter['count']
  progress,       \* the progress lines printed: the values of i + 1
  summary,        \* the summary printed: <<>> or one entry
  all_results,    \* main(): all_results
  report,         \* the CSV files written, each the sequence of its rows
  escaped,        \* the exception that ended the process, or "none"
  calls,          \* history: HTTP calls issued per request index
  failures,       \* history: dispatches ended by a transport exception
  batches,        \* history: the batches handed to asyncio.gather
  returned,       \* history: request indices whose coroutine has ended
  pauses          \* history: inter-scenario pauses completed

vars == <<SCENARIOS, server, mainpc, s, phase, session, reset, rpc, i, tasks,
          w, stats_list, error_counter, progress, summary, all_results,
          report, escaped, calls, failures, batches, returned, pauses>>

Phases == <<"INIT", "RESET_SERVER", "WARMUP_DELAY", "EXECUTE", "SUMMARIZE", "DONE">>

Statuses == {"200", "404", "500"}

NoWorkers == [j \in {} |-> 0]

\* the configuration run_scenario() was called with
scenario == SCENARIOS[s]

\* a coroutine object made by worker(...) and not yet started (line 138):
\* its argument `config` and its locals (draw is the value random.gauss
\* returned inside generate_payload, in tenths; rnd how the value of
\* random.random() at line 88 compared with read_ratio; call and callkey
\* the method and the key of the HTTP request sent)
Created(config) ==
  [st |-> "created", config |-> config, key |-> 0, draw |-> 0, size |-> 0,
   rnd |-> "none", op |-> "READ", status |-> "ERR", call |-> "none",
   callkey |-> 0, resp |-> "none"]

\* a coroutine that has ended keeps nothing but how it ended
Ended(t, how) == [Created(t.config) EXCEPT !.st = how]

InBatch == DOMAIN w
Started(j) == w[j].st # "created"
Resolved(j) == w[j].st \in {"done", "failed"}
InFlight == {j \in InBatch : w[j].st \in {"sent", "reading"}}

\* ---------------------------------------------------------------- catalog
\* The source's catalog (100000 and 50000 requests, 200 to 3000 users) is
\* scaled down: request counts up to MaxSmallRequests (less than one
\* tenth-step) and from ProgressParts up, every concurrency level up to
\* MaxUsers.  The workloads with varied keys, payloads and operations go with
\* at most one request (the hot workload without a hot subset, whose sampler
\* can raise next to a dispatch in flight, with at most two), the
\* services answering error statuses with small request counts.  A scenario
\* is Tiny when it is one read request run as one partial batch; a catalog
\* has at most one scenario that is not.
RequestCounts == (0 .. MaxSmallRequests) \cup (ProgressParts .. MaxRequests)

Shapes ==
  { [requests |-> n, users |-> u, wl |-> wl] :
      n \in RequestCounts, u \in 1 .. MaxUsers, wl \in Workloads }

Tiny(sh) == sh.wl = PlainWorkload /\ sh.requests = 1 /\ sh.users = 2

\* line 72: int(key_space * 0.05) is 0, the hot range is empty
NoHotSubset(wl) == wl.key_pattern = "hot" /\ HotLimit(wl.key_space) < 1

Catalogs ==
  { c \in [1 .. NumScenarios -> Shapes] :
      /\ Cardinality({k \in 1 .. NumScenarios : ~Tiny(c[k])}) <= 1
      /\ \A k \in 1 .. NumScenarios :
           c[k].wl # PlainWorkload =>
             c[k].requests <= (IF NoHotSubset(c[k].wl) THEN 2 ELSE 1) }

Services(c) ==
  IF \A k \in 1 .. NumScenarios :
       /\ c[k].requests <= MaxSmallRequests
       /\ NoHotSubset(c[k].wl) => c[k].requests <= 1
  THEN {{"200"}, Statuses} ELSE {{"200"}}

Init ==
  /\ \E c \in Catalogs :
       /\ SCENARIOS = [k \in 1 .. NumScenarios |->
                         MkScenario(k, c[k].requests, c[k].users, c[k].wl)]
       /\ server \in Services(c)
  /\ mainpc = "loop"
  /\ s = 1
  /\ phase = "none"
  /\ session = "none"
  /\ reset = "none"
  /\ rpc = "loop"
  /\ i = 0
  /\ tasks = <<>>
  /\ w = NoWorkers
  /\ stats_list = <<>>
  /\ error_counter = 0
  /\ progress = <<>>
  /\ summary = <<>>
  /\ all_results = <<>>
  /\ report = <<>>
  /\ escaped = "none"
  /\ calls = <<>>
  /\ failures = 0
  /\ batches = <<>>
  /\ returned = {}
  /\ pauses = 0

\* ---------------------------------------------------------------- actions
\* An exception leaves run_scenario() through the `async with` block (the
\* session is closed) and then main() and asyncio.run(): the process ends.
Raise(exc) ==
  /\ escaped' = exc
  /\ mainpc' = "aborted"
  /\ session' = "closed"

\* a changed run_scenario: the counter goes on from the previous run
InitialCount_Carried == error_counter

\* line 121: error_counter = {'count': 0}
InitialCount == 0

\* main() line 176 calls run_scenario(scenario); lines 116-125.
run_scenario ==
  /\ mainpc = "loop"
  /\ s <= NumScenarios
  /\ mainpc' = "run"
  /\ phase' = "INIT"
  /\ stats_list' = <<>>
  /\ error_counter' = InitialCount
  /\ session' = "none"
  /\ calls' = [j \in 0 .. scenario.requests - 1 |-> 0]
  /\ UNCHANGED <<SCENARIOS, server, s, reset, rpc, i, tasks, w, progress,
                 summary, all_results, report, escaped, failures, batches,
                 returned, pauses>>

\* line 127: the session is entered; line 128 calls clear_server_state.
open_session ==
  /\ mainpc = "run"
  /\ phase = "INIT"
  /\ session' = "open"
  /\ phase' = "RESET_SERVER"
  /\ UNCHANGED <<SCENARIOS, server, mainpc, s, reset, rpc, i, tasks, w,
                 stats_list, error_counter, progress, summary, all_results,
                 report, escaped, calls, failures, batches, returned, pauses>>

\* lines 49-55: the DELETE is answered (any status) or raises; the exception
\* is caught and logged.
\* a changed run_scenario: no pause after the reset
AfterReset_NoWarmup == "EXECUTE"

\* lines 128-129: clear_server_state returns (also after a caught exception)
\* and asyncio.sleep(2) follows.
AfterReset == "WARMUP_DELAY"

clear_server_state ==
  /\ mainpc = "run"
  /\ phase = "RESET_SERVER"
  /\ reset' \in {"ok", "failed"}
  /\ phase' = AfterReset
  /\ UNCHANGED <<SCENARIOS, server, mainpc, s, session, rpc, i, tasks, w,
                 stats_list, error_counter, progress, summary, all_results,
                 report, escaped, calls, failures, batches, returned, pauses>>

\* lines 129-134: asyncio.sleep(2) is over; start_time, tasks = [].
warmup ==
  /\ mainpc = "run"
  /\ phase = "WARMUP_DELAY"
  /\ phase' = "EXECUTE"
  /\ tasks' = <<>>
  /\ w' = NoWorkers
  /\ i' = 0
  /\ rpc' = "loop"
  /\ UNCHANGED <<SCENARIOS, server, mainpc, s, session, reset, stats_list,
                 error_counter, progress, summary, all_results, report,
                 escaped, calls, failures, batches, returned, pauses>>

\* a changed test: a batch is handed over when it is larger than `users`
BatchFull_Late(n, users) == n > users

\* line 141: len(tasks) >= scenario['users']
BatchFull(n, users) == n >= users

\* lines 137-142: one iteration of the loop up to the test of len(tasks);
\* a full batch is handed to asyncio.gather.
loop_append ==
  /\ mainpc = "run"
  /\ phase = "EXECUTE"
  /\ rpc = "loop"
  /\ i < scenario.requests
  /\ tasks' = Append(tasks, i)
  /\ w' = [j \in InBatch \cup {i} |-> IF j = i THEN Created(scenario) ELSE w[j]]
  /\ IF BatchFull(Len(tasks'), scenario.users)
       THEN /\ rpc' = "gather"
            /\ batches' = Append(batches, tasks')
            /\ i' = i
       ELSE /\ rpc' = "loop"
            /\ batches' = batches
            /\ i' = i + 1
  /\ UNCHANGED <<SCENARIOS, server, mainpc, s, phase, session, reset,
                 stats_list, error_counter, progress, summary, all_results,
                 report, escaped, calls, failures, returned, pauses>>

\* lines 81-90, 94: the first step of worker(i), up to the await of the HTTP
\* call.  get_key and generate_payload run outside the try block, so an
\* exception of get_key ends the coroutine.  asyncio starts the coroutines of
\* a gather in the order of the list.
StartedWorker(t, kr, g, u) ==
  [t EXCEPT !.st = "sent", !.key = kr.key, !.draw = g,
            !.size = generate_payload(g),
            !.rnd = Compared(u, t.config.read_ratio),
            !.op = OpType(u, t.config),
            !.call = IF IsWrite(u, t.config) THEN "POST" ELSE "GET",
            !.callkey = kr.key]

worker_start(j) ==
  /\ mainpc = "run"
  /\ phase = "EXECUTE"
  /\ rpc \in {"gather", "tail"}
  /\ j \in InBatch
  /\ w[j].st = "created"
  /\ \A k \in InBatch : k < j => Started(k)
  /\ \E kr \in get_key(w[j].config) :
       IF kr.raised
         THEN /\ w' = [w EXCEPT ![j] = Ended(w[j], "raised")]
              /\ returned' = returned \cup {j}
              /\ calls' = calls
         ELSE /\ \E g \in GaussDraws(w[j].config.payload_mean,
                                     w[j].config.payload_std),
                    u \in RandomDraws :
                   w' = [w EXCEPT ![j] = StartedWorker(w[j], kr, g, u)]
              /\ returned' = returned
              /\ calls' = [calls EXCEPT ![j] = @ + 1]
  /\ UNCHANGED <<SCENARIOS, server, mainpc, s, phase, session, reset, rpc, i,
                 tasks, stats_list, error_counter, progress, summary,
                 all_results, report, escaped, failures, batches, pauses>>

\* lines 90, 94: the response (status line and headers) of worker(j) arrives.
worker_response(j) ==
  /\ mainpc = "run"
  /\ phase = "EXECUTE"
  /\ j \in InBatch
  /\ w[j].st = "sent"
  /\ \A k \in InBatch : Started(k)
  /\ \E code \in server : w' = [w EXCEPT ![j].st = "reading", ![j].resp = code]
  /\ UNCHANGED <<SCENARIOS, server, mainpc, s, phase, session, reset, rpc, i,
                 tasks, stats_list, error_counter, progress, summary,
                 all_results, report, escaped, calls, failures, batches,
                 returned, pauses>>

\* a changed worker: the assignment of status is missing
ReadStatus_Keep(t) == t.status

\* lines 92, 96: status = response.status
ReadStatus(t) == t.resp

\* lines 100-108: the record appended to stats_list (without the two
\* wall-clock fields).
Record(t) ==
  [scenario |-> t.config.name, op |-> t.op, status |-> t.status,
   size |-> t.size, key |-> t.key]

\* a changed append: the record is written over the last one
AppendRecord_Overwrite(list, r) ==
  IF list = <<>> THEN <<r>> ELSE [list EXCEPT ![Len(list)] = r]

\* line 100: stats_list.append([...])
AppendRecord(list, r) == Append(list, r)

\* lines 91-92 / 95-96 and 98-108: the body is read, status is set and the
\* record is appended, without another suspension.
worker_read(j) ==
  /\ mainpc = "run"
  /\ phase = "EXECUTE"
  /\ j \in InBatch
  /\ w[j].st = "reading"
  /\ LET t == [w[j] EXCEPT !.status = ReadStatus(w[j])] IN
       /\ w' = [w EXCEPT ![j] = Ended(t, "done")]
       /\ stats_list' = AppendRecord(stats_list, Record(t))
  /\ returned' = returned \cup {j}
  /\ UNCHANGED <<SCENARIOS, server, mainpc, s, phase, session, reset, rpc, i,
                 tasks, error_counter, progress, summary, all_results, report,
                 escaped, calls, failures, batches, pauses>>

\* changed except branches: one that does not count, one that counts twice
CountError_Skip(n) == n

CountError_Twice(n) == n + 2

\* line 112: error_counter['count'] += 1
CountError(n) == n + 1

\* lines 110-113: the HTTP call or the read of the body raises (connection
\* error, timeout); the except branch counts it and the coroutine ends.
worker_fail(j) ==
  /\ mainpc = "run"
  /\ phase = "EXECUTE"
  /\ j \in InBatch
  /\ w[j].st \in {"sent", "reading"}
  /\ \A k \in InBatch : Started(k)
  /\ w' = [w EXCEPT ![j] = Ended(w[j], "failed")]
  /\ error_counter' = CountError(error_counter)
  /\ failures' = failures + 1
  /\ returned' = returned \cup {j}
  /\ UNCHANGED <<SCENARIOS, server, mainpc, s, phase, session, reset, rpc, i,
                 tasks, stats_list, progress, summary, all_results, report,
                 escaped, calls, batches, pauses>>

\* line 147: total_reqs // 10
ProgressStep(total_reqs) == total_reqs \div ProgressParts

\* line 147: (i + 1) % (total_reqs // 10) == 0, evaluated when the step is
\* not zero.
ProgressDue(n, total_reqs) == n % ProgressStep(total_reqs) = 0

\* a changed join: resumes when the first coroutine of the batch has returned
BatchJoined_First == \E j \in InBatch : Resolved(j)

\* lines 142, 154: `await asyncio.gather(*tasks)` resumes when every
\* coroutine of the batch has returned.
BatchJoined == \A j \in InBatch : Resolved(j)

\* lines 142-150: asyncio.gather returns once every coroutine of the batch
\* has returned; tasks = []; the progress test divides by total_reqs // 10.
gather_return ==
  /\ mainpc = "run"
  /\ phase = "EXECUTE"
  /\ rpc = "gather"
  /\ BatchJoined
  /\ tasks' = <<>>
  /\ w' = NoWorkers
  /\ IF ProgressStep(scenario.requests) = 0
       THEN /\ Raise("ZeroDivisionError")
            /\ UNCHANGED <<progress, i, rpc>>
       ELSE /\ progress' = IF ProgressDue(i + 1, scenario.requests)
                             THEN Append(progress, i + 1) ELSE progress
            /\ i' = i + 1
            /\ rpc' = "loop"
            /\ UNCHANGED <<escaped, mainpc, session>>
  /\ UNCHANGED <<SCENARIOS, server, s, phase, reset, stats_list, error_counter,
                 summary, all_results, report, calls, failures, batches, returned, pauses>>

\* lines 142, 154: asyncio.gather (return_exceptions is False) raises the
\* exception of a coroutine to its awaiter; the other coroutines are left
\* where they are.
gather_raise ==
  /\ mainpc = "run"
  /\ phase = "EXECUTE"
  /\ rpc \in {"gather", "tail"}
  /\ \A j \in InBatch : Started(j)
  /\ \E j \in InBatch : w[j].st = "raised"
  /\ Raise("ValueError")
  /\ UNCHANGED <<SCENARIOS, server, s, phase, reset, rpc, i, tasks, w,
                 stats_list, error_counter, progress, summary, all_results,
                 report, calls, failures, batches, returned, pauses>>

\* lines 137, 152-154: the loop is over; the remaining tasks, if any, are
\* handed to asyncio.gather.
loop_exit ==
  /\ mainpc = "run"
  /\ phase = "EXECUTE"
  /\ rpc = "loop"
  /\ i = scenario.requests
  /\ IF tasks # <<>>
       THEN /\ rpc' = "tail"
            /\ batches' = Append(batches, tasks)
            /\ phase' = phase
       ELSE /\ phase' = "SUMMARIZE"
            /\ UNCHANGED <<rpc, batches>>
  /\ UNCHANGED <<SCENARIOS, server, mainpc, s, session, reset, i, tasks, w,
                 stats_list, error_counter, progress, summary, all_results,
                 report, escaped, calls, failures, returned, pauses>>

\* line 154: the gather of the remaining tasks returns.
tail_return ==
  /\ mainpc = "run"
  /\ phase = "EXECUTE"
  /\ rpc = "tail"
  /\ BatchJoined
  /\ phase' = "SUMMARIZE"
  /\ UNCHANGED <<SCENARIOS, server, mainpc, s, session, reset, rpc, i, tasks,
                 w, stats_list, error_counter, progress, summary, all_results,
                 report, escaped, calls, failures, batches, returned, pauses>>

\* line 157: a quotient n / total_time of the summary, in hundredths of a
\* request per second
Throughput(n, total_time) == (100 * n) \div total_time

\* lines 156-166: total_time is the difference of two readings of the clock
\* (0 when the clock did not advance between them); throughput divides by
\* it; the block of the session is left and stats_list returned.
summarize ==
  /\ mainpc = "run"
  /\ phase = "SUMMARIZE"
  /\ \E t \in 0 .. MaxElapsed :
       IF t = 0
         THEN /\ Raise("ZeroDivisionError")
              /\ UNCHANGED <<phase, summary>>
         ELSE /\ summary' = <<[requests |-> scenario.requests, total_time |-> t,
                               throughput |-> Throughput(scenario.requests, t),
                               errors |-> error_counter]>>
              /\ phase' = "DONE"
              /\ session' = "closed"
              /\ UNCHANGED <<escaped, mainpc>>
  /\ UNCHANGED <<SCENARIOS, server, s, reset, rpc, i, tasks, w, stats_list,
                 error_counter, progress, all_results, report, calls, failures,
                 batches, returned, pauses>>

\* a changed main(): the results of a run are put in front of the earlier ones
Extend_InFront(all, results) == results \o all

\* line 177: all_results.extend(results)
Extend(all, results) == all \o results

\* lines 176-177: run_scenario returned; all_results.extend(results).  The
\* call is over: its loop variables and the histories of the scenario are put
\* back to their initial values; the record list (main's `results`) and the
\* error counter are left as they are until the next call assigns them.
main_extend ==
  /\ mainpc = "run"
  /\ phase = "DONE"
  /\ all_results' = Extend(all_results, stats_list)
  /\ mainpc' = "sleep"
  /\ rpc' = "loop"
  /\ i' = 0
  /\ tasks' = <<>>
  /\ w' = NoWorkers
  /\ reset' = "none"
  /\ progress' = <<>>
  /\ summary' = <<>>
  /\ calls' = <<>>
  /\ failures' = 0
  /\ batches' = <<>>
  /\ returned' = {}
  /\ UNCHANGED <<SCENARIOS, server, s, phase, session, stats_list,
                 error_counter, report, escaped, pauses>>

\* line 178: asyncio.sleep(5) is over; the loop takes the next scenario.
\* a changed loop of main(): every other scenario
NextScenario_Skip(k) == k + 2

\* line 175: `for scenario in SCENARIOS` takes the next entry
NextScenario(k) == k + 1

main_sleep ==
  /\ mainpc = "sleep"
  /\ pauses' = pauses + 1
  /\ s' = NextScenario(s)
  /\ mainpc' = "loop"
  /\ UNCHANGED <<SCENARIOS, server, phase, session, reset, rpc, i, tasks, w,
                 stats_list, error_counter, progress, summary, all_results,
                 report, escaped, calls, failures, batches, returned>>

\* lines 180-188: the CSV file is written (header, then all_results), or
\* open()/write raises OSError.
main_export ==
  /\ mainpc = "loop"
  /\ s > NumScenarios
  /\ \/ /\ report' = Append(report, all_results)
        /\ mainpc' = "exit"
        /\ escaped' = escaped
     \/ /\ escaped' = "OSError"
        /\ mainpc' = "aborted"
        /\ report' = report
  /\ UNCHANGED <<SCENARIOS, server, s, phase, session, reset, rpc, i, tasks, w,
                 stats_list, error_counter, progress, summary, all_results,
                 calls, failures, batches, returned, pauses>>

Next ==
  \/ run_scenario
  \/ open_session
  \/ clear_server_state
  \/ warmup
  \/ loop_append
  \/ \E j \in 0 .. MaxRequests + 1 : worker_start(j)
  \/ \E j \in 0 .. MaxRequests + 1 : worker_response(j)
  \/ \E j \in 0 .. MaxRequests + 1 : worker_read(j)
  \/ \E j \in 0 .. MaxRequests + 1 : worker_fail(j)
  \/ gather_return
  \/ gather_raise
  \/ loop_exit
  \/ tail_return
  \/ summarize
  \/ main_extend
  \/ main_sleep
  \/ main_export

Spec == Init /\ [][Next]_vars

\* ================================================================ claims
\* run_scenario has returned and main() has not yet taken the result
RunReturned == mainpc = "run" /\ phase = "DONE"

Range(q) == {q[k] : k \in DOMAIN q}

\* C1: when run_scenario returns after `failures` dispatches failed with a
\* transport exception, it returns exactly requests - failures records and
\* the error counter equals failures.
C1_RecordsAndErrors ==
  RunReturned =>
    /\ Len(stats_list) = scenario.requests - failures
    /\ error_counter = failures

C1_Witness ==
  /\ RunReturned
  /\ failures >= 1
  /\ Len(stats_list) >= 1
  /\ Len(batches) >= 2

\* C2: every dispatch that has been started and has not ended belongs to
\* the batch handed to asyncio.gather last: no dispatch of a later batch is
\* started while one of an earlier batch is unresolved.
C2_BatchBarrier ==
  \A j \in DOMAIN calls :
    (calls[j] > 0 /\ j \notin returned) =>
      /\ batches # <<>>
      /\ j \in Range(batches[Len(batches)])

C2_Witness ==
  /\ Len(batches) >= 2
  /\ \E j \in InFlight : j \in Range(batches[Len(batches)])
  /\ \A j \in Range(batches[1]) : j \in returned

\* ceil(n / u)
CeilDiv(n, u) == (n + u - 1) \div u

Min(a, b) == IF a <= b THEN a ELSE b

\* the consecutive batches of u indices, the last one of n mod u when u does
\* not divide n
ExpectedBatches(n, u) ==
  [b \in 1 .. CeilDiv(n, u) |->
     [k \in 1 .. Min(u, n - (b - 1) * u) |-> (b - 1) * u + k - 1]]

\* C3 (as claimed): when the run of a scenario is over (returned, or ended in
\* EXECUTE), the batches executed are the ceil(N/U) consecutive batches and
\* every index was dispatched exactly once.  Stated for the key patterns whose
\* sampler cannot raise.
C3_BatchPartition ==
  (/\ s <= NumScenarios
   /\ scenario.key_pattern # "hot"
   /\ RunReturned \/ (mainpc = "aborted" /\ phase = "EXECUTE")) =>
    /\ batches = ExpectedBatches(scenario.requests, scenario.users)
    /\ \A j \in 0 .. scenario.requests - 1 : calls[j] = 1

\* C4: the step in which a dispatch finishes receiving its response appends
\* exactly one record carrying the status code received and leaves the error
\* counter alone; no record carries the placeholder status "ERR".
C4_ResponseRecorded ==
  /\ [](\A r \in Range(stats_list) \cup Range(all_results) : r.status \in Statuses)
  /\ [][\A j \in DOMAIN w :
          (w[j].st = "reading" /\ j \in DOMAIN w' /\ w'[j].st = "done") =>
            /\ Len(stats_list') = Len(stats_list) + 1
            /\ SubSeq(stats_list', 1, Len(stats_list)) = stats_list
            /\ stats_list'[Len(stats_list')].status = w[j].resp
            /\ error_counter' = error_counter]_vars

C4_Witness ==
  /\ error_counter = 0
  /\ \E a, b \in DOMAIN stats_list :
       /\ stats_list[a].status = "404"
       /\ stats_list[b].status = "500"

\* C5: a dispatch whose HTTP call raises adds exactly 1 to the error counter,
\* appends no record, raises nothing to run_scenario and leaves the other
\* dispatches and the loop as they are; no request index issues more than one
\* HTTP call.
C5_FailureCounted ==
  /\ [](\A j \in DOMAIN calls : calls[j] <= 1)
  /\ [][failures' = failures + 1 =>
          /\ error_counter' = error_counter + 1
          /\ stats_list' = stats_list
          /\ escaped' = escaped
          /\ <<mainpc', phase', rpc', i', tasks', calls'>> =
               <<mainpc, phase, rpc, i, tasks, calls>>
          /\ DOMAIN w' = DOMAIN w
          /\ \A k \in DOMAIN w : w'[k] = w[k] \/ w'[k].st = "failed"]_vars

C5_Witness ==
  /\ failures >= 1
  /\ Len(batches) >= 2
  /\ InFlight # {}
  /\ \A j \in InBatch : w[j].st # "failed"

\* C6: in a scenario with read_ratio = 1.0 no dispatch issues a POST, every
\* dispatch is a READ and every record has operation "READ".
C6_ReadOnly ==
  (mainpc = "run" /\ scenario.read_ratio = 100) =>
    /\ \A j \in InBatch : w[j].call # "POST" /\ w[j].op = "READ"
    /\ \A r \in Range(stats_list) : r.op = "READ"

C6_Witness ==
  /\ RunReturned
  /\ scenario.read_ratio = 100
  /\ scenario.requests = 10
  /\ failures = 0
  /\ Len(stats_list) = 10
  /\ \A r \in Range(stats_list) : r.op = "READ"

PhaseSteps ==
  {<<"none", "INIT">>, <<"DONE", "INIT">>} \cup
  {<<Phases[k], Phases[k + 1]>> : k \in 1 .. Len(Phases) - 1}

\* C7: the phase only ever changes to the next phase of INIT, RESET_SERVER,
\* WARMUP_DELAY, EXECUTE, SUMMARIZE, DONE (and from DONE to the INIT of the
\* next run); an HTTP call of a dispatch is issued only in EXECUTE, after the
\* reset call has ended; a reset call that raises is followed by WARMUP_DELAY
\* and raises nothing to run_scenario, and no run is ended by an exception
\* before EXECUTE.
C7_PhaseOrder ==
  /\ [](mainpc = "aborted" => phase \in {"EXECUTE", "SUMMARIZE", "DONE"})
  /\ [][phase' # phase => <<phase, phase'>> \in PhaseSteps]_vars
  /\ [][\A j \in DOMAIN calls \cap DOMAIN calls' :
          calls'[j] > calls[j] => phase = "EXECUTE" /\ reset # "none"]_vars
  /\ [][(phase = "RESET_SERVER" /\ reset' = "failed") =>
          (phase' = "WARMUP_DELAY" /\ escaped' = "none" /\ mainpc' = "run")]_vars

C7_Witness ==
  /\ RunReturned
  /\ reset = "failed"
  /\ Len(stats_list) >= 1

\* C8: the scenario being run is the one after those whose inter-scenario
\* pause is over, the dispatches in flight all belong to it, and between two
\* runs no scenario is in a phase before DONE and no dispatch is in flight.
C8_CatalogOrder ==
  /\ mainpc = "run" => scenario.name = pauses + 1
  /\ \A j \in InFlight : w[j].config.name = pauses + 1
  /\ mainpc \in {"loop", "sleep", "exit"} =>
       (phase \in {"none", "DONE"} /\ InFlight = {})

C8_Witness ==
  /\ mainpc = "run"
  /\ s = 2
  /\ pauses = 1
  /\ all_results # <<>>
  /\ InFlight # {}

\* C9 (as claimed): no exception other than a failure to write the report
\* ends the process while a scenario with requests >= 1 is run.
C9_NeverHalts ==
  escaped \notin {"none", "OSError"} => scenario.requests = 0

\* C10 (as claimed): when run_scenario returns, a progress line was printed
\* at k * requests / 10 completed requests for each k in 1..10 (requests a
\* multiple of 10).
C10_ProgressEveryTenth ==
  (/\ RunReturned
   /\ scenario.requests >= ProgressParts
   /\ scenario.requests % ProgressParts = 0) =>
    \A k \in 1 .. ProgressParts :
      (k * scenario.requests) \div ProgressParts \in Range(progress)

\* C11 (as claimed): the session is open only inside the run of a scenario,
\* between the end of INIT and the end of SUMMARIZE; it is closed when the run
\* has returned and when an exception has ended it; and no dispatch has an
\* HTTP call outstanding on a session that has been closed.
C11_SessionScoped ==
  /\ session = "open" =>
       (mainpc = "run" /\ phase \in {"RESET_SERVER", "WARMUP_DELAY",
                                     "EXECUTE", "SUMMARIZE"})
  /\ (RunReturned \/ mainpc = "aborted") => session = "closed"
  /\ session = "closed" => InFlight = {}

\* the rows of report file f that carry scenario name k
RowsOf(f, k) == {a \in DOMAIN f : f[a].scenario = k}

\* C12: at most one report is written, and only when the run of every
\* scenario has returned and its pause is over; its rows are all_results,
\* which grows only when a run returns, by the records of that run in their
\* append order, one per dispatch of the run that did not fail; the rows of a
\* scenario come before those of the next; no row carries the placeholder
\* status of a dispatch that failed.
C12_ReportOnce ==
  /\ [](/\ Len(report) <= 1
        /\ report # <<>> =>
             /\ mainpc = "exit"
             /\ pauses = NumScenarios
             /\ phase = "DONE"
             /\ report[1] = all_results
             /\ \A a, b \in DOMAIN report[1] :
                  a < b => report[1][a].scenario <= report[1][b].scenario
             /\ \A a \in DOMAIN report[1] : report[1][a].status \in Statuses
             /\ \A k \in 1 .. NumScenarios :
                  Cardinality(RowsOf(report[1], k)) <= SCENARIOS[k].requests)
  /\ [][all_results' # all_results =>
          /\ RunReturned
          /\ all_results' = all_results \o stats_list
          /\ Len(stats_list) = scenario.requests - failures]_vars
  /\ [][report' # report => (s > NumScenarios /\ report' = <<all_results>>)]_vars

C12_Witness ==
  /\ mainpc = "exit"
  /\ report # <<>>
  /\ \A k \in 1 .. NumScenarios : RowsOf(report[1], k) # {}
  /\ Cardinality(RowsOf(report[1], 2)) = 1
  /\ SCENARIOS[2].requests = 2

\* the Gaussian draws from -10.0 to 10.0, in tenths
DrawRange == (0 - 10 * MaxRequests) .. (10 * MaxRequests)

\* C13: generate_payload returns a length of at least 1 for every draw,
\* negative and zero draws included; the payload of every dispatch in flight
\* and the size of every record are at least 1.
C13_PayloadAtLeastOne ==
  /\ \A g \in DrawRange : generate_payload(g) >= 1
  /\ \A m \in 0 .. MaxUsers, sd \in 0 .. MaxUsers :
       \A g \in GaussDraws(m, sd) : generate_payload(g) >= 1
  /\ \A j \in InFlight : w[j].size >= 1
  /\ \A r \in Range(stats_list) \cup Range(all_results) : r.size >= 1

C13_Witness ==
  /\ \E j \in InFlight : w[j].draw < 0 /\ w[j].size = 1
  /\ \E r \in Range(all_results) : r.size = 2

\* a scenario is being run, or its run was ended by an exception
InScenario == mainpc = "run" \/ (mainpc = "aborted" /\ escaped # "OSError")

\* the dispatches of the scenario that have resolved (success or failure)
ResolvedSoFar == {j \in returned : ~(j \in InBatch /\ w[j].st = "raised")}

IsPrefix(p, q) == Len(p) <= Len(q) /\ SubSeq(q, 1, Len(p)) = p

\* C14: while a scenario is run, the number of records plus the error
\* counter is the number of dispatches resolved so far; a step that appends
\* a record or counts an error does exactly one of the two for exactly one
\* dispatch and leaves the other dispatches as they are; the records already
\* appended are never changed, removed or reordered.
C14_NoLostUpdates ==
  /\ [](InScenario =>
          Len(stats_list) + error_counter = Cardinality(ResolvedSoFar))
  /\ [][(mainpc = "run" /\ phase # "INIT" /\ phase' # "INIT") =>
          /\ IsPrefix(stats_list, stats_list')
          /\ IsPrefix(all_results, all_results')
          /\ error_counter' >= error_counter]_vars
  /\ [][(mainpc = "run" /\ phase = "EXECUTE" /\
         <<stats_list', error_counter'>> # <<stats_list, error_counter>>) =>
          /\ Len(stats_list') + error_counter' =
               Len(stats_list) + error_counter + 1
          /\ \E j \in InFlight :
               /\ returned' = returned \cup {j}
               /\ DOMAIN w' = DOMAIN w
               /\ \A k \in InBatch \ {j} : w'[k] = w[k]]_vars

C14_Witness ==
  /\ mainpc = "run"
  /\ Len(batches) >= 2
  /\ error_counter >= 1
  /\ \E a, b, c \in InBatch :
       /\ a < b /\ b < c
       /\ w[a].st = "reading"
       /\ w[b].st = "failed"
       /\ w[c].st = "done"

\* the request indices whose HTTP call was issued and whose coroutine has
\* not ended
Outstanding == {j \in DOMAIN calls : calls[j] > 0 /\ j \notin returned}

\* C15: while a scenario is run, at most `users` dispatches are started and
\* unresolved, and the list handed to asyncio.gather never holds more than
\* `users` coroutines; a scenario with fewer requests than users runs as one
\* batch of `requests` dispatches.
C15_ConcurrencyBound ==
  InScenario =>
    /\ Cardinality(InFlight) <= scenario.users
    /\ Cardinality(Outstanding) <= scenario.users
    /\ Len(tasks) <= scenario.users
    /\ \A b \in DOMAIN batches : Len(batches[b]) <= scenario.users
    /\ (scenario.requests < scenario.users /\ batches # <<>>) =>
         batches = <<[k \in 1 .. scenario.requests |-> k - 1]>>

C15_Witness ==
  /\ mainpc = "run"
  /\ s = 2
  /\ scenario.users = 3
  /\ Len(batches) >= 2
  /\ Cardinality(InFlight) = 3
  /\ Cardinality(Outstanding) = 3
  /\ \E r \in Range(all_results) : r.scenario = 1

\* C16 (as claimed): get_key raises for no dispatch, and the key of every
\* dispatch and of every record is user_N with 1 <= N <= key_space.
C16_KeyInRange ==
  /\ \A j \in InBatch : w[j].st # "raised"
  /\ \A j \in InFlight : w[j].key \in 1 .. w[j].config.key_space
  /\ \A r \in Range(stats_list) \cup Range(all_results) :
       r.key \in 1 .. SCENARIOS[r.scenario].key_space

\* C17: a dispatch in flight has issued exactly one HTTP call, a POST when
\* its draw was greater than read_ratio and a GET otherwise (also when the
\* draw equals read_ratio), with its sampled key; its operation is WRITE for
\* a POST and READ for a GET; the record it appends carries the operation of
\* the call issued and the key sent in it.
C17_OperationChoice ==
  /\ [](\A j \in InFlight :
          /\ calls[j] = 1
          /\ w[j].call = IF w[j].rnd = "above" THEN "POST" ELSE "GET"
          /\ w[j].op = IF w[j].call = "POST" THEN "WRITE" ELSE "READ"
          /\ w[j].callkey = w[j].key)
  /\ [][\A j \in DOMAIN w :
          (w[j].st = "reading" /\ j \in DOMAIN w' /\ w'[j].st = "done") =>
            LET r == stats_list'[Len(stats_list')] IN
              /\ r.op = IF w[j].call = "POST" THEN "WRITE" ELSE "READ"
              /\ r.key = w[j].callkey]_vars

C17_Witness ==
  /\ \E j, k \in InFlight :
       /\ w[j].rnd = "equal"
       /\ w[j].call = "GET"
       /\ w[k].rnd = "above"
       /\ w[k].call = "POST"
       /\ w[k].callkey > 1
  /\ \E r \in Range(all_results) : r.op = "READ"

\* C18: every run of a scenario starts with no record and an error counter
\* of 0; while it is run, the error counter is the number of failed
\* dispatches of this run, no more records exist than this scenario has
\* requests, and every record carries the name of this scenario, whatever
\* the runs before it produced.
C18_ScenarioIsolation ==
  /\ [](mainpc = "run" =>
          /\ error_counter = failures
          /\ Len(stats_list) <= scenario.requests
          /\ \A r \in Range(stats_list) : r.scenario = scenario.name)
  /\ [][(mainpc = "loop" /\ mainpc' = "run") =>
          (stats_list' = <<>> /\ error_counter' = 0)]_vars

C18_Witness ==
  /\ RunReturned
  /\ s = 2
  /\ SCENARIOS[1].requests = 1
  /\ all_results = <<>>
  /\ error_counter = 0
  /\ Len(stats_list) = 2
  /\ \A r \in Range(stats_list) : r.scenario = 2

\* round(x) of a float x given in tenths: the nearest integer, a tie going
\* to the even one
RoundNearest(x10) ==
  LET f == x10 \div 10
      r == x10 % 10
  IN  IF r < 5 THEN f
      ELSE IF r > 5 THEN f + 1
      ELSE IF f % 2 = 0 THEN f ELSE f + 1

\* C19 (as claimed): the payload of a dispatch has the length round(g),
\* floored to 1, where g is its Gaussian draw; with payload_std = 0 the
\* length is payload_mean.
C19_PayloadRounded ==
  \A j \in InFlight :
    /\ w[j].size = Max(1, RoundNearest(w[j].draw))
    /\ w[j].config.payload_std = 0 => w[j].size = w[j].config.payload_mean

====
